---- MODULE Spec2Model ----
(***************************************************************************)
(* Role-based access control backend (backend/app.py and the parallel      *)
(* backend/db.py + models.py + auth.py modules): provisioning of the       *)
(* usuarios table from a seed file, bcrypt authentication, the cookie      *)
(* session and the role-filtered user listing.                             *)
(*                                                                         *)
(* Text is modelled as a sequence of characters, each character a string   *)
(* atom; "E'" and "e'" are the precomposed accented letters, "U+0301" the  *)
(* combining acute accent their NFKD decomposition produces.               *)
(***************************************************************************)
EXTENDS Integers, Sequences, FiniteSets, TLC

(***************************************************************************)
(* Bounds of the model.                                                    *)
(***************************************************************************)
MaxRuns == 2          \* provisioning runs (process starts) in all

\* the processes provisioning against the same database file
Procs == {1, 2}

(***************************************************************************)
(* Python's None, and values that may be None, are records so that they    *)
(* compare with the dictionaries the functions return.                     *)
(***************************************************************************)
None == [none |-> TRUE]

(***************************************************************************)
(* Character classes and str methods used by the username derivation.     *)
(***************************************************************************)
Digits == <<"0", "1", "2", "3", "4", "5", "6", "7", "8", "9">>

IsSpace(ch) == ch = " "

IsCombining(ch) == ch = "U+0301"

IsAlnum(ch) ==
    ch \in {"a", "e", "j", "l", "o", "r", "u", "e'",
            "A", "E", "J", "L", "R", "E'",
            "0", "1", "2", "3", "4", "5", "6", "7", "8", "9"}

\* unicodedata.normalize("NFKD", ch) of one character
NFKD(ch) ==
    CASE ch = "E'" -> <<"E", "U+0301">>
      [] ch = "e'" -> <<"e", "U+0301">>
      [] OTHER -> <<ch>>

\* str.lower() of one character
LowerChar(ch) ==
    CASE ch = "A" -> "a"
      [] ch = "E" -> "e"
      [] ch = "J" -> "j"
      [] ch = "L" -> "l"
      [] ch = "R" -> "r"
      [] ch = "E'" -> "e'"
      [] OTHER -> ch

Lower(text) == [i \in 1..Len(text) |-> LowerChar(text[i])]

RECURSIVE Normalize(_)
Normalize(text) ==
    IF text = <<>> THEN <<>> ELSE NFKD(Head(text)) \o Normalize(Tail(text))

RECURSIVE LStrip(_)
LStrip(text) ==
    IF text # <<>> /\ IsSpace(Head(text)) THEN LStrip(Tail(text)) ELSE text

RECURSIVE RStrip(_)
RStrip(text) ==
    IF text # <<>> /\ IsSpace(text[Len(text)])
    THEN RStrip(SubSeq(text, 1, Len(text) - 1))
    ELSE text

\* str.strip()
Strip(text) == LStrip(RStrip(text))

\* "_".join(text.split()): runs of whitespace become one "_", none at the ends
RECURSIVE JoinSplit(_)
JoinSplit(text) ==
    LET t == LStrip(text) IN
    IF t = <<>> THEN <<>>
    ELSE IF IsSpace(Head(text))
         THEN <<"_">> \o JoinSplit(t)
         ELSE <<Head(t)>> \o JoinSplit(Tail(t))

SplitJoin(text) == JoinSplit(Strip(text))

\* str.replace(" ", "_")
ReplaceSpaces(text) ==
    [i \in 1..Len(text) |-> IF text[i] = " " THEN "_" ELSE text[i]]

\* str(n) of a non-negative integer
RECURSIVE IntToStr(_)
IntToStr(n) ==
    IF n < 10 THEN <<Digits[n + 1]>>
    ELSE IntToStr(n \div 10) \o <<Digits[(n % 10) + 1]>>

DigitValue(ch) == CHOOSE d \in 0..9 : Digits[d + 1] = ch

\* int(s) of a string of decimal digits
RECURSIVE StrToInt(_)
StrToInt(s) ==
    IF Len(s) = 1 THEN DigitValue(s[1])
    ELSE 10 * StrToInt(SubSeq(s, 1, Len(s) - 1)) + DigitValue(s[Len(s)])

\* app.py _slugify
_slugify(text) ==
    LET decomposed == Normalize(text)
        stripped == SelectSeq(decomposed, LAMBDA ch : ~IsCombining(ch))
        lowered == Strip(Lower(stripped))
        joined == SplitJoin(lowered)
    IN  SelectSeq(joined, LAMBDA ch : IsAlnum(ch) \/ ch = "_")

(***************************************************************************)
(* bcrypt.  A hash string "$2b$<cost>$<salt><digest>" is the record of its *)
(* three parts; the digest is a one-way function of (password, salt,       *)
(* cost), modelled as the injective tuple of its arguments.  Salts are     *)
(* numbers: 0 is the salt "92IXUNpkjO0rOQ5byMi.Ye" written into db.py,     *)
(* gensalt() returns a salt never returned before, at the default cost 12. *)
(***************************************************************************)
BcryptDigest(password, salt, cost) == <<password, salt, cost>>

gensalt(fresh) == [cost |-> 12, salt |-> fresh]

hashpw(password, salt) ==
    [cost |-> salt.cost, salt |-> salt.salt,
     digest |-> BcryptDigest(password, salt.salt, salt.cost)]

checkpw(password, hashed) ==
    BcryptDigest(password, hashed.salt, hashed.cost) = hashed.digest

\* auth.py
verify_password(password, hashed) == checkpw(password, hashed)

\* db.py: the string names cost 12, while its salt and digest are those of
\* "$2y$10$92IXUNpkjO0rOQ5byMi.Ye4oKoEa3Ro9llC/.og/at2.uheWG/igi", the hash of
\* "password" computed at cost 10.
TEST_PASSWORD_HASH ==
    [cost |-> 12, salt |-> 0, digest |-> BcryptDigest("password", 0, 10)]

(***************************************************************************)
(* Seed files (data/usuarios.json).  A file is unreadable (open or         *)
(* json.load raises) or holds a list of objects; an object may lack a key. *)
(***************************************************************************)
Jo == <<"J", "o">>
EvaR == <<"E'", " ", "R">>
Lu == <<"L", "u">>
Al == <<" ", "A", "-", "l">>

UserJo == [id |-> 1, nombre |-> Jo, rol |-> "admin", renta_mensual |-> 900]
UserEva == [id |-> 2, nombre |-> EvaR, rol |-> "supervisor", renta_mensual |-> 700]
UserLu == [id |-> 3, nombre |-> Lu, rol |-> "usuario", renta_mensual |-> 500]
UserLu12 == [id |-> 12, nombre |-> Lu, rol |-> "usuario", renta_mensual |-> 400]
UserAl == [id |-> 4, nombre |-> Al, rol |-> "Admin", renta_mensual |-> 300]
UserNoRole == [id |-> 5, nombre |-> Jo, rol |-> "", renta_mensual |-> 0]
UserSameId == [id |-> 1, nombre |-> Lu, rol |-> "usuario", renta_mensual |-> 100]
UserMissingRol == [id |-> 2, nombre |-> Lu, renta_mensual |-> 100]
UserMissingNombre == [id |-> 3, rol |-> "usuario", renta_mensual |-> 100]

SeedFiles ==
    { [readable |-> TRUE, data |-> <<UserJo, UserEva, UserLu, UserLu12>>],
      [readable |-> TRUE, data |-> <<UserAl, UserNoRole, UserLu>>],
      [readable |-> TRUE, data |-> <<UserJo, UserEva, UserSameId>>],
      [readable |-> TRUE, data |-> <<UserJo, UserMissingRol, UserLu>>],
      [readable |-> TRUE, data |-> <<UserLu12, UserMissingNombre>>],
      [readable |-> TRUE, data |-> <<>>],
      [readable |-> FALSE, data |-> <<>>] }

SeedKeys == {"id", "nombre", "rol", "renta_mensual"}

\* every user[...] of one loop iteration finds its key
HasKeys(user) == SeedKeys \subseteq DOMAIN user

(***************************************************************************)
(* The rows init_db inserts.                                               *)
(***************************************************************************)
\* a username derived from the name alone
app_username_without_id(user) == _slugify(user.nombre)

\* app.py init_db, lines 81-82
app_username(user) == _slugify(user.nombre) \o <<"_">> \o IntToStr(user.id)

\* db.py init_db, line 85
db_username(user) ==
    ReplaceSpaces(Lower(user.nombre)) \o <<"_">> \o IntToStr(user.id)

\* app.py init_db, lines 81-100
app_seed_row(user, fresh) ==
    [id |-> user.id, nombre |-> user.nombre, rol |-> user.rol,
     renta_mensual |-> user.renta_mensual,
     username |-> app_username(user),
     password_hash |-> hashpw("password", gensalt(fresh))]

\* db.py init_db, lines 85-99
db_seed_row(user) ==
    [id |-> user.id, nombre |-> user.nombre, rol |-> user.rol,
     renta_mensual |-> user.renta_mensual,
     username |-> db_username(user),
     password_hash |-> TEST_PASSWORD_HASH]

(***************************************************************************)
(* The usuarios table: id INTEGER PRIMARY KEY, username TEXT UNIQUE.       *)
(***************************************************************************)
\* a table declared without PRIMARY KEY and UNIQUE
InsertConflict_unconstrained(table, row) == FALSE

\* the INSERT raises sqlite3.IntegrityError
InsertConflict(table, row) ==
    \E r \in table : r.id = row.id \/ r.username = row.username

RECURSIVE Sum(_, _)
Sum(f, S) ==
    IF S = {} THEN 0
    ELSE LET x == CHOOSE y \in S : TRUE IN f[x] + Sum(f, S \ {x})

\* the client's cookie jar with neither cookie in it
NoCookies == [user_id |-> None, role |-> None]

VARIABLES
    seed,       \* the content of data/usuarios.json
    store,      \* the committed rows of table usuarios
    lock,       \* the connection holding the database write lock, 0 if none
    work,       \* work[p]: the table as connection p's open transaction sees it
    pc,         \* pc[p]: where process p is in init_db
    impl,       \* impl[p]: "app" (app.py init_db) or "db" (db.py init_db)
    reset_db,   \* reset_db[p]: whether p's run found RESET_DB=1 in its environment
    idx,        \* idx[p]: the seed record the loop of p is at
    err,        \* err[p]: the exception that ended p's run, "none" if none
    runs,       \* runs[p]: the provisioning runs p has started
    nextSalt,   \* the next salt bcrypt.gensalt() returns
    cookies,    \* the cookies the client holds and sends with each request
    resp,       \* the response to the client's last request
    session,    \* history: the user of the last successful login, None after logout
    caller      \* history: the (id, role) the listing in resp was filtered with

vars == <<seed, store, lock, work, pc, impl, reset_db, idx, err, runs, nextSalt,
          cookies, resp, session, caller>>

http == <<cookies, resp, session, caller>>

\* what a statement of connection p reads
View(p) == IF lock = p THEN work[p] ELSE store

Init ==
    /\ seed \in SeedFiles
    /\ store = {}
    /\ lock = 0
    /\ work = [p \in Procs |-> {}]
    /\ pc = [p \in Procs |-> "idle"]
    /\ impl = [p \in Procs |-> "app"]
    /\ reset_db = [p \in Procs |-> FALSE]
    /\ idx = [p \in Procs |-> 0]
    /\ err = [p \in Procs |-> "none"]
    /\ runs = [p \in Procs |-> 0]
    /\ nextSalt = 1
    /\ cookies = NoCookies
    /\ resp = None
    /\ session = None
    /\ caller = None

\* an exception path that commits what the run inserted so far
Raise_commits(p, exception) ==
    /\ pc' = [pc EXCEPT ![p] = "failed"]
    /\ err' = [err EXCEPT ![p] = exception]
    /\ lock' = IF lock = p THEN 0 ELSE lock
    /\ work' = [work EXCEPT ![p] = {}]
    /\ store' = View(p)

\* an exception leaves init_db: the connection goes away with its transaction
\* uncommitted (db.py closes it in finally, app.py drops it), which rolls back
Raise(p, exception) ==
    /\ pc' = [pc EXCEPT ![p] = "failed"]
    /\ err' = [err EXCEPT ![p] = exception]
    /\ lock' = IF lock = p THEN 0 ELSE lock
    /\ work' = [work EXCEPT ![p] = {}]
    /\ UNCHANGED store

\* app_connect deleting the table whatever RESET_DB is
app_connect_always_deletes(p) ==
    /\ pc[p] \in {"idle", "done", "failed"}
    /\ Sum(runs, Procs) < MaxRuns
    /\ \E env \in BOOLEAN : reset_db' = [reset_db EXCEPT ![p] = env]
    /\ pc' = [pc EXCEPT ![p] = "delete"]
    /\ impl' = [impl EXCEPT ![p] = "app"]
    /\ runs' = [runs EXCEPT ![p] = @ + 1]
    /\ err' = [err EXCEPT ![p] = "none"]
    /\ idx' = [idx EXCEPT ![p] = 0]
    /\ UNCHANGED <<seed, store, lock, work, nextSalt, http>>

\* app.py init_db, lines 50-70: RESET_DB, connect, CREATE TABLE IF NOT EXISTS
app_connect(p) ==
    /\ pc[p] \in {"idle", "done", "failed"}
    /\ Sum(runs, Procs) < MaxRuns
    /\ \E env \in BOOLEAN :
         /\ reset_db' = [reset_db EXCEPT ![p] = env]
         /\ pc' = [pc EXCEPT ![p] = IF env THEN "delete" ELSE "count"]
    /\ impl' = [impl EXCEPT ![p] = "app"]
    /\ runs' = [runs EXCEPT ![p] = @ + 1]
    /\ err' = [err EXCEPT ![p] = "none"]
    /\ idx' = [idx EXCEPT ![p] = 0]
    /\ UNCHANGED <<seed, store, lock, work, nextSalt, http>>

\* db.py init_db, lines 68-70
db_connect(p) ==
    /\ pc[p] \in {"idle", "done", "failed"}
    /\ Sum(runs, Procs) < MaxRuns
    /\ pc' = [pc EXCEPT ![p] = "count"]
    /\ impl' = [impl EXCEPT ![p] = "db"]
    /\ reset_db' = [reset_db EXCEPT ![p] = FALSE]
    /\ runs' = [runs EXCEPT ![p] = @ + 1]
    /\ err' = [err EXCEPT ![p] = "none"]
    /\ idx' = [idx EXCEPT ![p] = 0]
    /\ UNCHANGED <<seed, store, lock, work, nextSalt, http>>

\* app.py init_db, line 69: DELETE FROM usuarios, in a transaction it opens
reset_delete(p) ==
    /\ pc[p] = "delete"
    /\ lock = 0
    /\ lock' = p
    /\ work' = [work EXCEPT ![p] = {}]
    /\ pc' = [pc EXCEPT ![p] = "delete_commit"]
    /\ UNCHANGED <<seed, store, impl, reset_db, idx, err, runs, nextSalt, http>>

\* app.py init_db, line 70: conn.commit()
reset_commit(p) ==
    /\ pc[p] = "delete_commit"
    /\ store' = work[p]
    /\ lock' = 0
    /\ work' = [work EXCEPT ![p] = {}]
    /\ pc' = [pc EXCEPT ![p] = "count"]
    /\ UNCHANGED <<seed, impl, reset_db, idx, err, runs, nextSalt, http>>

\* a write statement finds the database locked by another connection until
\* the busy timeout: sqlite3.OperationalError
busy_timeout(p) ==
    /\ \/ pc[p] = "delete"
       \/ pc[p] = "loop" /\ idx[p] <= Len(seed.data)
    /\ lock \notin {0, p}
    /\ Raise(p, "OperationalError")
    /\ UNCHANGED <<seed, impl, reset_db, idx, runs, nextSalt, http>>

\* app.py lines 72-76, db.py lines 73-78: SELECT COUNT(*) and the test on it
select_count(p) ==
    /\ pc[p] = "count"
    /\ pc' = [pc EXCEPT ![p] =
                IF Cardinality(View(p)) = 0 THEN "load" ELSE "close"]
    /\ UNCHANGED <<seed, store, lock, work, impl, reset_db, idx, err, runs, nextSalt, http>>

\* app.py lines 77-78, db.py lines 79-80: open and json.load
load_seed(p) ==
    /\ pc[p] = "load"
    /\ IF seed.readable
       THEN /\ pc' = [pc EXCEPT ![p] = "loop"]
            /\ idx' = [idx EXCEPT ![p] = 1]
            /\ UNCHANGED <<store, lock, work, err>>
       ELSE /\ Raise(p, "OSError")
            /\ UNCHANGED idx
    /\ UNCHANGED <<seed, impl, reset_db, runs, nextSalt, http>>

\* the row one loop iteration of init_db inserts
seed_row(p, user) ==
    IF impl[p] = "app" THEN app_seed_row(user, nextSalt) ELSE db_seed_row(user)

\* app.py lines 80-101, db.py lines 82-100: one iteration of the loop
insert_user(p) ==
    /\ pc[p] = "loop"
    /\ idx[p] <= Len(seed.data)
    /\ LET user == seed.data[idx[p]] IN
       IF ~HasKeys(user)
       THEN /\ Raise(p, "KeyError")
            \* app.py calls gensalt() after user["nombre"] and user["id"]
            /\ nextSalt' = IF impl[p] = "app" /\ {"nombre", "id"} \subseteq DOMAIN user
                           THEN nextSalt + 1 ELSE nextSalt
            /\ UNCHANGED idx
       ELSE /\ lock \in {0, p}
            /\ nextSalt' = IF impl[p] = "app" THEN nextSalt + 1 ELSE nextSalt
            /\ IF InsertConflict(View(p), seed_row(p, user))
               THEN /\ Raise(p, "IntegrityError")
                    /\ UNCHANGED idx
               ELSE /\ work' = [work EXCEPT ![p] = View(p) \cup {seed_row(p, user)}]
                    /\ lock' = p
                    /\ idx' = [idx EXCEPT ![p] = @ + 1]
                    /\ UNCHANGED <<store, pc, err>>
    /\ UNCHANGED <<seed, impl, reset_db, runs, http>>

\* app.py line 103, db.py line 102: conn.commit() after the loop
seed_commit(p) ==
    /\ pc[p] = "loop"
    /\ idx[p] > Len(seed.data)
    /\ store' = View(p)
    /\ lock' = IF lock = p THEN 0 ELSE lock
    /\ work' = [work EXCEPT ![p] = {}]
    /\ pc' = [pc EXCEPT ![p] = "close"]
    /\ UNCHANGED <<seed, impl, reset_db, idx, err, runs, nextSalt, http>>

\* app.py line 106, db.py line 106: conn.close()
close(p) ==
    /\ pc[p] = "close"
    /\ pc' = [pc EXCEPT ![p] = "done"]
    /\ UNCHANGED <<seed, store, lock, work, impl, reset_db, idx, err, runs, nextSalt, http>>

(***************************************************************************)
(* Queries.  A SELECT without ORDER BY scans usuarios in rowid order, and  *)
(* the rowid is the INTEGER PRIMARY KEY id.                                *)
(***************************************************************************)
RECURSIVE RowidOrder(_)
RowidOrder(rows) ==
    IF rows = {} THEN <<>>
    ELSE LET first == CHOOSE r \in rows : \A q \in rows : r.id <= q.id
         IN  <<first>> \o RowidOrder(rows \ {first})

\* dict.pop(key, None)
Pop(dict, key) == [k \in DOMAIN dict \ {key} |-> dict[k]]

\* app.py: SELECT ... WHERE username = ?, fetchone, with password_hash
_get_user_by_username(username) ==
    LET rows == RowidOrder({r \in store : r.username = username}) IN
    IF rows = <<>> THEN None
    ELSE [id |-> rows[1].id, nombre |-> rows[1].nombre, rol |-> rows[1].rol,
          renta_mensual |-> rows[1].renta_mensual,
          username |-> rows[1].username,
          password_hash |-> rows[1].password_hash]

\* models.py: the same lookup, for login only
get_user_auth_by_username(username) ==
    LET rows == RowidOrder({r \in store : r.username = username}) IN
    IF rows = <<>> THEN None
    ELSE [id |-> rows[1].id, nombre |-> rows[1].nombre, rol |-> rows[1].rol,
          renta_mensual |-> rows[1].renta_mensual,
          username |-> rows[1].username,
          password_hash |-> rows[1].password_hash]

\* models.py: the lookup that selects no password_hash
get_user_by_username(username) ==
    LET rows == RowidOrder({r \in store : r.username = username}) IN
    IF rows = <<>> THEN None
    ELSE [id |-> rows[1].id, nombre |-> rows[1].nombre, rol |-> rows[1].rol,
          renta_mensual |-> rows[1].renta_mensual,
          username |-> rows[1].username]

\* _authenticate_user returning the row as looked up
_authenticate_user_keeps_hash(username, password) ==
    LET user == _get_user_by_username(username) IN
    IF user = None THEN None
    ELSE IF checkpw(password, user.password_hash) THEN user ELSE None

\* app.py
_authenticate_user(username, password) ==
    LET user == _get_user_by_username(username) IN
    IF user = None THEN None
    ELSE IF checkpw(password, user.password_hash)
         THEN Pop(user, "password_hash")
         ELSE None

\* auth.py
authenticate_user(username, password) ==
    LET user == get_user_auth_by_username(username) IN
    IF user = None THEN None
    ELSE IF verify_password(password, user.password_hash)
         THEN Pop(user, "password_hash")
         ELSE None

\* the list comprehension over cursor.fetchall()
Summaries(rows) ==
    LET ordered == RowidOrder(rows) IN
    [i \in 1..Len(ordered) |->
        [id |-> ordered[i].id, nombre |-> ordered[i].nombre,
         rol |-> ordered[i].rol, renta_mensual |-> ordered[i].renta_mensual]]

\* _get_users_for_role with the supervisor query missing its WHERE clause
_get_users_for_role_supervisor_sees_all(current_user_id, current_role) ==
    IF current_role = "admin" THEN Summaries(store)
    ELSE IF current_role = "supervisor"
    THEN Summaries(store)
    ELSE IF current_role = "usuario"
    THEN Summaries({r \in store : r.id = current_user_id})
    ELSE Summaries({})

\* _get_users_for_role with the usuario query filtering on the role
_get_users_for_role_usuario_by_role(current_user_id, current_role) ==
    IF current_role = "admin" THEN Summaries(store)
    ELSE IF current_role = "supervisor"
    THEN Summaries({r \in store : r.rol \in {"supervisor", "usuario"}})
    ELSE IF current_role = "usuario"
    THEN Summaries({r \in store : r.rol = "usuario"})
    ELSE Summaries({})

\* _get_users_for_role with the unknown role falling through to the full query
_get_users_for_role_allow_by_default(current_user_id, current_role) ==
    IF current_role = "supervisor"
    THEN Summaries({r \in store : r.rol \in {"supervisor", "usuario"}})
    ELSE IF current_role = "usuario"
    THEN Summaries({r \in store : r.id = current_user_id})
    ELSE Summaries(store)

\* app.py
_get_users_for_role(current_user_id, current_role) ==
    IF current_role = "admin" THEN Summaries(store)
    ELSE IF current_role = "supervisor"
    THEN Summaries({r \in store : r.rol \in {"supervisor", "usuario"}})
    ELSE IF current_role = "usuario"
    THEN Summaries({r \in store : r.id = current_user_id})
    ELSE Summaries({})

\* models.py
get_users_for_role(current_user_id, current_role) ==
    IF current_role = "admin" THEN Summaries(store)
    ELSE IF current_role = "supervisor"
    THEN Summaries({r \in store : r.rol \in {"supervisor", "usuario"}})
    ELSE IF current_role = "usuario"
    THEN Summaries({r \in store : r.id = current_user_id})
    ELSE Summaries({})

(***************************************************************************)
(* The HTTP handlers of app.py.  The application serves once its startup   *)
(* hook init_db has returned.  The client keeps the cookies the responses  *)
(* set and sends them back.                                                *)
(***************************************************************************)
Serving == \E p \in Procs : pc[p] = "done" /\ impl[p] = "app"

\* what the history keeps of the stored row of the user who logged in
LoggedIn(row) == [id |-> row.id, rol |-> row.rol, username |-> row.username]

\* request bodies of POST /auth/login
Pad(text) == <<" ">> \o text \o <<" ">>

LoginUsernames ==
    {r.username : r \in store} \cup {Pad(r.username) : r \in store}
        \cup {<<"n", "o">>, <<>>}

LoginPasswords == {"password", "mala", ""}

\* not cookie: the cookie is absent or its value is the empty string (the
\* user_id value is text as a character sequence, the role value a string)
Falsy(cookie, empty) == cookie = None \/ cookie.value = empty

\* POST /auth/login
login ==
    /\ Serving
    /\ \E name \in LoginUsernames, password \in LoginPasswords :
         LET username == Strip(name)
             user == _authenticate_user(username, password)
         IN  IF user = None
             THEN /\ resp' = [op |-> "login", status |-> 401,
                              detail |-> "Credenciales invalidas"]
                  /\ UNCHANGED <<cookies, session>>
             ELSE /\ resp' = [op |-> "login", status |-> 201,
                              content |-> [message |-> "Login OK", user |-> user]]
                  /\ cookies' = [user_id |-> [value |-> IntToStr(user.id)],
                                 role |-> [value |-> user.rol]]
                  /\ session' = LoggedIn(CHOOSE r \in store : r.username = username)
    /\ caller' = None
    /\ UNCHANGED <<seed, store, lock, work, pc, impl, reset_db, idx, err, runs,
                   nextSalt>>

\* logout that answers without deleting the cookies
logout_keeps_cookies ==
    /\ Serving
    /\ resp' = [op |-> "logout", status |-> 201,
                content |-> [message |-> "Logout OK"]]
    /\ session' = None
    /\ caller' = None
    /\ UNCHANGED <<seed, store, lock, work, pc, impl, reset_db, idx, err, runs,
                   nextSalt, cookies>>

\* POST /auth/logout
logout ==
    /\ Serving
    /\ resp' = [op |-> "logout", status |-> 201,
                content |-> [message |-> "Logout OK"]]
    /\ cookies' = NoCookies
    /\ session' = None
    /\ caller' = None
    /\ UNCHANGED <<seed, store, lock, work, pc, impl, reset_db, idx, err, runs,
                   nextSalt>>

\* GET /usuarios
usuarios ==
    /\ Serving
    /\ LET user_id_cookie == cookies.user_id
           role_cookie == cookies.role
       IN  IF Falsy(user_id_cookie, <<>>) \/ Falsy(role_cookie, "")
           THEN /\ resp' = [op |-> "usuarios", status |-> 401,
                            detail |-> "No autenticado"]
                /\ caller' = None
           ELSE /\ resp' = [op |-> "usuarios", status |-> 200,
                            content |-> _get_users_for_role(
                                StrToInt(user_id_cookie.value), role_cookie.value)]
                /\ caller' = [id |-> StrToInt(user_id_cookie.value),
                              role |-> role_cookie.value]
    /\ UNCHANGED <<seed, store, lock, work, pc, impl, reset_db, idx, err, runs, nextSalt,
                   cookies, session>>

init_db(p) ==
    \/ app_connect(p)
    \/ db_connect(p)
    \/ reset_delete(p)
    \/ reset_commit(p)
    \/ busy_timeout(p)
    \/ select_count(p)
    \/ load_seed(p)
    \/ insert_user(p)
    \/ seed_commit(p)
    \/ close(p)

Next ==
    \/ \E p \in Procs : init_db(p)
    \/ login
    \/ logout
    \/ usuarios

Spec == Init /\ [][Next]_vars
(***************************************************************************)
(* Inputs the properties range over.                                       *)
(***************************************************************************)
CallerIds == {r.id : r \in store} \cup {99}

OtherRoles == {"", "Admin", "ADMIN", "Usuario", "supervisor ", "ghost-role"}

SeqToSet(seq) == {seq[i] : i \in 1..Len(seq)}

\* the public fields of a stored row
PublicSummary(r) ==
    [id |-> r.id, nombre |-> r.nombre, rol |-> r.rol,
     renta_mensual |-> r.renta_mensual]

\* the last response is a listing (GET /usuarios answered 200)
Listed == resp # None /\ resp.op = "usuarios" /\ resp.status = 200

(***************************************************************************)
(* C1: for every store content and caller id, the listing for role admin   *)
(* is exactly all records of the store, the listing for role supervisor is *)
(* exactly the records whose role is supervisor or usuario, and no admin   *)
(* record is in a supervisor's listing.                                    *)
(***************************************************************************)
C1_AdminSupervisorListing ==
    \A c \in CallerIds :
        /\ SeqToSet(_get_users_for_role(c, "admin"))
             = {PublicSummary(r) : r \in store}
        /\ Len(_get_users_for_role(c, "admin")) = Cardinality(store)
        /\ SeqToSet(get_users_for_role(c, "admin"))
             = {PublicSummary(r) : r \in store}
        /\ Len(get_users_for_role(c, "admin")) = Cardinality(store)
        /\ SeqToSet(_get_users_for_role(c, "supervisor"))
             = {PublicSummary(r) : r \in {q \in store : q.rol # "admin"
                     /\ (q.rol = "supervisor" \/ q.rol = "usuario")}}
        /\ SeqToSet(get_users_for_role(c, "supervisor"))
             = {PublicSummary(r) : r \in {q \in store : q.rol # "admin"
                     /\ (q.rol = "supervisor" \/ q.rol = "usuario")}}
        /\ \A u \in SeqToSet(_get_users_for_role(c, "supervisor"))
                 \cup SeqToSet(get_users_for_role(c, "supervisor")) :
             u.rol # "admin"

\* a supervisor was served a listing of a store that holds an admin record
C1_Witness ==
    /\ Listed
    /\ caller.role = "supervisor"
    /\ \E r \in store : r.rol = "admin"
    /\ resp.content = _get_users_for_role(caller.id, "supervisor")
    /\ Len(resp.content) = 3

(***************************************************************************)
(* C2: for every store content and caller id c, the listing for role       *)
(* usuario holds exactly the records whose id is c: at most one, none of   *)
(* another user, and the empty listing when no record has id c; and every  *)
(* item GET /usuarios returns to a logged-in user of role usuario has that *)
(* user's id.                                                              *)
(***************************************************************************)
C2_UsuarioListing ==
    /\ \A c \in CallerIds :
        /\ SeqToSet(_get_users_for_role(c, "usuario"))
             = {PublicSummary(r) : r \in {q \in store : q.id = c}}
        /\ SeqToSet(get_users_for_role(c, "usuario"))
             = {PublicSummary(r) : r \in {q \in store : q.id = c}}
        /\ Len(_get_users_for_role(c, "usuario")) <= 1
        /\ Len(get_users_for_role(c, "usuario")) <= 1
        /\ (\A r \in store : r.id # c) =>
             /\ _get_users_for_role(c, "usuario") = <<>>
             /\ get_users_for_role(c, "usuario") = <<>>
    /\ (Listed /\ session # None /\ session.rol = "usuario") =>
         \A i \in 1..Len(resp.content) : resp.content[i].id = session.id

\* a logged-in usuario was served their own record while the store holds
\* another usuario
C2_Witness ==
    /\ Listed
    /\ session # None
    /\ session.rol = "usuario"
    /\ Len(resp.content) = 1
    /\ \E r \in store : r.rol = "usuario" /\ r.id # session.id

(***************************************************************************)
(* C3: for every role other than exactly admin, supervisor or usuario      *)
(* (empty, unknown, differently cased), every caller id and every store    *)
(* content, the listing is the empty sequence.                             *)
(***************************************************************************)
C3_DenyByDefault ==
    /\ \A role \in OtherRoles, c \in CallerIds :
        /\ _get_users_for_role(c, role) = <<>>
        /\ get_users_for_role(c, role) = <<>>
    /\ (Listed /\ caller.role \notin {"admin", "supervisor", "usuario"}) =>
         resp.content = <<>>

\* a logged-in user whose stored role is "Admin" was served the empty listing
\* of a store that holds records
C3_Witness ==
    /\ Listed
    /\ caller.role = "Admin"
    /\ store # {}
    /\ resp.content = <<>>

C5_SeededPasswordAuthenticates ==
    /\ \A r \in store, password \in LoginPasswords :
        /\ (_authenticate_user(r.username, password) # None)
             <=> (password = "password")
        /\ (authenticate_user(r.username, password) # None)
             <=> (password = "password")
    /\ \A r \in store, password \in LoginPasswords :
        /\ _authenticate_user(<<"n", "o">>, password)
             = _authenticate_user(r.username, "mala")
        /\ authenticate_user(<<"n", "o">>, password)
             = authenticate_user(r.username, "mala")
    /\ (resp # None /\ resp.op = "login" /\ resp.status # 201) =>
         resp = [op |-> "login", status |-> 401,
                 detail |-> "Credenciales invalidas"]

(***************************************************************************)
(* C6: no object returned by authenticate, by the login response or by     *)
(* the role-filtered listing has the password_hash field; the lookup by    *)
(* username for login is the one operation whose result has it.            *)
(***************************************************************************)
AllRoles == {"admin", "supervisor", "usuario"} \cup OtherRoles

HasHash(dict) == "password_hash" \in DOMAIN dict

C6_NoSecretLeakage ==
    /\ \A name \in LoginUsernames, password \in LoginPasswords :
        /\ ~HasHash(_authenticate_user(name, password))
        /\ ~HasHash(authenticate_user(name, password))
        /\ ~HasHash(get_user_by_username(name))
    /\ \A r \in store :
        /\ HasHash(_get_user_by_username(r.username))
        /\ HasHash(get_user_auth_by_username(r.username))
    /\ \A role \in AllRoles, c \in CallerIds :
        \A u \in SeqToSet(_get_users_for_role(c, role))
                \cup SeqToSet(get_users_for_role(c, role)) : ~HasHash(u)
    /\ (resp # None /\ resp.op = "login" /\ resp.status = 201) =>
         ~HasHash(resp.content.user)
    /\ Listed => \A i \in 1..Len(resp.content) : ~HasHash(resp.content[i])

\* a login succeeded and its response carries the user
C6_Witness ==
    /\ resp # None
    /\ resp.op = "login"
    /\ resp.status = 201
    /\ resp.content.user.id = session.id
    /\ HasHash(_get_user_by_username(session.username))

(***************************************************************************)
(* Provisioning outcomes.                                                  *)
(***************************************************************************)
\* the table holds one row per seed record, with the record's fields
Complete(table) ==
    /\ \A i \in 1..Len(seed.data) : HasKeys(seed.data[i])
    /\ Cardinality(table) = Len(seed.data)
    /\ \A i \in 1..Len(seed.data) :
         \E r \in table : PublicSummary(r) = seed.data[i]

(***************************************************************************)
(* C7 as stated: init_db against a store that holds at least one record is *)
(* a no-op: no step of a provisioning run changes a non-empty store.       *)
(***************************************************************************)
C7_PopulatedStoreUnchanged == [][store # {} => store' = store]_vars

(***************************************************************************)
(* C7 amended: init_db against a store that holds at least one record is a *)
(* no-op unless the run has RESET_DB=1 in its environment: a non-empty     *)
(* store changes only by the commit of such a run's DELETE.                *)
(***************************************************************************)
C7_PopulatedStoreUnchangedUnlessReset ==
    [][(store # {} /\ store' # store) =>
          \E p \in Procs : /\ reset_db[p]
                           /\ impl[p] = "app"
                           /\ pc[p] = "delete_commit"
                           /\ pc'[p] = "count"
                           /\ store' = {}]_vars

\* a run without RESET_DB returned from a store another run had populated
C7_Witness ==
    \E p \in Procs :
        /\ pc[p] = "done"
        /\ ~reset_db[p]
        /\ idx[p] = 0
        /\ store # {}
        /\ Complete(store)

(***************************************************************************)
(* C8: seeding is all-or-nothing: the store never holds only some of the   *)
(* seed records, a run that fails leaves the store as it was (empty when   *)
(* no other run seeded it), and a run that commits its inserts leaves all  *)
(* seed records in the store.                                              *)
(***************************************************************************)
C8_AllOrNothing ==
    /\ [](store = {} \/ Complete(store))
    /\ [][\A p \in Procs :
            /\ (pc[p] # "failed" /\ pc'[p] = "failed") => store' = store
            /\ (pc[p] = "loop" /\ pc'[p] = "close") => Complete(store')]_vars

\* a run failed after inserting at least one record and the store is empty
C8_Witness ==
    \E p \in Procs :
        /\ pc[p] = "failed"
        /\ err[p] \in {"KeyError", "IntegrityError"}
        /\ idx[p] > 1
        /\ store = {}
        /\ \A q \in Procs : q # p => pc[q] = "idle"

(***************************************************************************)
(* C9: when provisioning runs execute concurrently, every interleaving     *)
(* ends with exactly one complete copy of the seed set in the store or     *)
(* with an error raised in a run, and never holds two rows with the same   *)
(* id or the same username.                                                *)
(***************************************************************************)
AllEnded == \A p \in Procs : pc[p] \in {"done", "failed"}

C9_ConcurrentSeeding ==
    /\ \A r, q \in store : (r.id = q.id \/ r.username = q.username) => r = q
    /\ Cardinality({r.id : r \in store}) = Cardinality(store)
    /\ \A p \in Procs : \A r, q \in work[p] :
         (r.id = q.id \/ r.username = q.username) => r = q
    /\ AllEnded =>
         \/ Complete(store)
         \/ \E p \in Procs : err[p] # "none"

\* two runs both found the table empty; one seeded it, the other met the
\* first one's rows and raised
C9_Witness ==
    \E p, q \in Procs :
        /\ pc[p] = "done" /\ idx[p] > Len(seed.data)
        /\ pc[q] = "failed" /\ err[q] = "IntegrityError" /\ idx[q] = 1
        /\ ~reset_db[p] /\ ~reset_db[q]
        /\ Complete(store)
        /\ Cardinality(store) = 4

(***************************************************************************)
(* C10: two seed records with the same display name and distinct ids get   *)
(* distinct usernames, and no two records of the store share a username.   *)
(* The derivation is a function of (name, id) alone, so it is compared     *)
(* over the names and ids below once, before any run has started.          *)
(***************************************************************************)
SeedNames == {Jo, EvaR, Lu, Al, <<"l", "u">>, <<"L", " ", "u">>}

SeedIds == {1, 2, 3, 4, 5, 12, 112}

NameAndId(name, id) == [id |-> id, nombre |-> name]

C10_UsernamesUnique ==
    /\ (\A p \in Procs : runs[p] = 0) =>
         \A name \in SeedNames : \A i, j \in SeedIds :
           i # j =>
             /\ app_username(NameAndId(name, i)) # app_username(NameAndId(name, j))
             /\ db_username(NameAndId(name, i)) # db_username(NameAndId(name, j))
    /\ \A r, q \in store : r.username = q.username => r = q
    /\ \A r, q \in store :
         (r.nombre = q.nombre /\ r.id # q.id) => r.username # q.username

\* the store holds two records with the same display name and distinct ids
C10_Witness ==
    \E r, q \in store :
        /\ r.nombre = q.nombre
        /\ r.id # q.id
        /\ r.username # q.username
        /\ r.username = app_username(NameAndId(r.nombre, r.id))
(***************************************************************************)
(* C11: after provisioning, any two distinct records of the store, all     *)
(* seeded with the default password "password", have different             *)
(* password_hash values.                                                   *)
(***************************************************************************)
C11_PasswordHashesDistinct ==
    \A r, q \in store : r.id # q.id => r.password_hash # q.password_hash
====
